---- MODULE Spec2Model ----
(***************************************************************************)
(* Model of the Archon Quest dialogue extractor.                           *)
(*   src/archon_quest_extractor.py  (ArchonQuestExtractorV2, "v2")         *)
(*   src/archive_v1_extractor.py    (ArchonQuestExtractor,   "v1")         *)
(* Python's None is modelled by the identifier None where an integer is    *)
(* expected; the fixed labels are written in ASCII:                        *)
(*   Narrator = '旁白', Traveler = '旅行者', Unknown = '未知'.                *)
(***************************************************************************)
EXTENDS Integers, Sequences, FiniteSets, TLC

VARIABLES
    version,      \* which extractor class is running: "v1" or "v2"
    textmap,      \* self.textmap: [isDict, map]; isDict = FALSE is load_json's []
    dialog_dict,  \* self.dialog_dict: canonical id -> dialogue node
    npc_dict,     \* self.npc_dict: character id -> [nameTextMapHash]
    pc,           \* position of the running operation
    hash_value,   \* argument of the last get_text call
    text_out,     \* its result
    raw_id,       \* argument of the last find_dialog_id call
    real_id,      \* its result
    role_in,      \* talkRole of the node given to the Speaker Resolver
    speaker_out,  \* the label it returned
    init_dialog,  \* Talk.initDialog of the talk being traversed
    stack,        \* frames of extract_dialog_tree: [id, idx]
    visited,      \* the visited set shared by one traversal
    result,       \* lines appended so far, in order
    chapter_id,       \* id of the chapter given to extract_chapter
    qi,               \* index of the next quest of the chapter's quest loop
    quest_in,         \* what the quest just processed read: its record, CodexQuest file, talks
    nested_out,       \* what extract_from_codexquest returned for it
    extraction_method,\* "CodexQuest" or "DialogTree", as set in the quest loop
    chapter_output,   \* the lines of the chapter transcript so far
    block,            \* the lines the quest just processed appended
    content,          \* what extract_chapter returned
    coverage,         \* what extract_all recorded for the chapter and offered to the sampler
    seed,             \* extract_all's seed (None: not given)
    sample_count,     \* the reservoir capacity
    stream,           \* per chapter, whether it has content and its dialogue lines
    ambient,          \* per run, the state of the process-wide random module
    runs,             \* two independent runs of the reporting pass
    main_quests,      \* self.main_quests: the MainQuestExcelConfigData records
    assigned          \* chapter id -> the quests the chapter lookup returned for it

vars == <<version, textmap, dialog_dict, npc_dict, pc, hash_value, text_out,
          raw_id, real_id, role_in, speaker_out, init_dialog, stack, visited,
          result, chapter_id, qi, quest_in, nested_out, extraction_method,
          chapter_output, block, content, coverage, seed, sample_count, stream,
          ambient, runs, main_quests, assigned>>

-----------------------------------------------------------------------------
(* Values *)

None == -1
Narrator == "narrator"
Traveler == "traveler"
Unknown == "unknown"
AttributeError == "<AttributeError>"
Versions == {"v1", "v2"}

\* Python truthiness of a number-or-None
Truthy(x) == x # 0 /\ x # None

-----------------------------------------------------------------------------
(* load_json and the text table *)

TextKeys == {"100", "200"}
TextValues == {"Hello", ""}

\* every table json.load can give over two keys, and the [] of a failed load
TextMaps ==
    {[isDict |-> TRUE, map |-> m] :
        m \in UNION {[D -> TextValues] : D \in SUBSET TextKeys}}
    \cup {[isDict |-> FALSE, map |-> <<>>]}

\* f"[Missing:{hash_value}]"
Missing(h) == "[Missing:" \o ToString(h) \o "]"

\* get_text with the isinstance test dropped
get_text_unguarded(tm, h) ==
    IF ~Truthy(h) THEN ""
    ELSE IF tm.isDict /\ ToString(h) \in DOMAIN tm.map THEN tm.map[ToString(h)]
    ELSE IF tm.isDict THEN Missing(h)
    ELSE AttributeError

\* get_text returning the empty string for a missing key
get_text_silent(tm, h) ==
    IF ~Truthy(h) THEN ""
    ELSE IF tm.isDict /\ ToString(h) \in DOMAIN tm.map THEN tm.map[ToString(h)]
    ELSE ""

\* ArchonQuestExtractorV2.get_text
get_text(tm, h) ==
    IF ~Truthy(h) THEN ""
    ELSE IF tm.isDict
         THEN IF ToString(h) \in DOMAIN tm.map
              THEN tm.map[ToString(h)]
              ELSE Missing(h)
         ELSE Missing(h)

\* ArchonQuestExtractor.get_text: self.textmap.get raises on a list
V1_get_text(tm, h) ==
    IF ~Truthy(h) THEN ""
    ELSE IF ~tm.isDict THEN AttributeError
    ELSE IF ToString(h) \in DOMAIN tm.map
         THEN tm.map[ToString(h)]
         ELSE Missing(h)

GetTextOf(v, tm, h) == IF v = "v1" THEN V1_get_text(tm, h) ELSE get_text(tm, h)

-----------------------------------------------------------------------------
(* str and int on non-negative integers, digit by digit *)

RECURSIVE str(_)
str(n) == IF n < 10 THEN <<n>> ELSE Append(str(n \div 10), n % 10)

RECURSIVE int(_)
int(s) == IF Len(s) = 0 THEN 0
          ELSE 10 * int(SubSeq(s, 1, Len(s) - 1)) + s[Len(s)]

\* int(prefix + str(init_dialog_id))
Candidate(prefix, id) == int(<<prefix>> \o str(id))

Digits == 0 .. 9

\* the prefix loop of find_dialog_id run from the highest digit down
RECURSIVE try_prefix_down(_, _, _)
try_prefix_down(dd, id, p) ==
    IF p < 0 THEN None
    ELSE IF Candidate(p, id) \in DOMAIN dd THEN Candidate(p, id)
    ELSE try_prefix_down(dd, id, p - 1)

\* find_dialog_id with the digits tried in descending order
find_dialog_id_desc(dd, id) ==
    IF id \in DOMAIN dd THEN id ELSE try_prefix_down(dd, id, 9)

\* for prefix in '0123456789': the first candidate that is a key, from digit p on
RECURSIVE try_prefix(_, _, _)
try_prefix(dd, id, p) ==
    IF p > 9 THEN None
    ELSE IF Candidate(p, id) \in DOMAIN dd THEN Candidate(p, id)
    ELSE try_prefix(dd, id, p + 1)

\* ArchonQuestExtractor.find_dialog_id
find_dialog_id(dd, id) ==
    IF id \in DOMAIN dd THEN id ELSE try_prefix(dd, id, 0)

-----------------------------------------------------------------------------
(* Dialogue nodes and characters *)

NoRole == [present |-> FALSE, type |-> "", id |-> 0]

RoleTypes ==
    {"TALK_ROLE_NPC", "TALK_ROLE_PLAYER", "TALK_ROLE_NARRATOR", "TALK_ROLE_MATE_AVATAR"}
RoleIds == {0, 7, 8}
Roles == {NoRole} \cup [present : {TRUE}, type : RoleTypes, id : RoleIds]

\* a node without text, successors or role
BareNode == [talkContentTextMapHash |-> 0, nextDialogs |-> <<>>, talkRole |-> NoRole]

DefaultTextMap ==
    [isDict |-> TRUE, map |-> [k \in TextKeys |-> IF k = "100" THEN "Hello" ELSE ""]]

NameHashes == {0, 100, 999}
NpcDicts == {<<>>} \cup {[n \in {7} |-> [nameTextMapHash |-> h]] : h \in NameHashes}

\* get_speaker_name answering the narrator label when nothing matches
get_speaker_name_narrator(tm, npcs, role) ==
    IF role.type = "TALK_ROLE_PLAYER" THEN Traveler
    ELSE IF Truthy(role.id) /\ role.id \in DOMAIN npcs
            /\ Truthy(npcs[role.id].nameTextMapHash)
         THEN get_text(tm, npcs[role.id].nameTextMapHash)
         ELSE Narrator

\* ArchonQuestExtractorV2.get_speaker_name
get_speaker_name(tm, npcs, role) ==
    IF role.type = "TALK_ROLE_PLAYER" THEN Traveler
    ELSE IF Truthy(role.id) /\ role.id \in DOMAIN npcs
            /\ Truthy(npcs[role.id].nameTextMapHash)
         THEN get_text(tm, npcs[role.id].nameTextMapHash)
         ELSE Unknown

\* the role_name computation inside ArchonQuestExtractor.extract_dialog_tree
V1_role_name(tm, npcs, role) ==
    IF role.type = "TALK_ROLE_NPC" /\ Truthy(role.id)
    THEN IF role.id \in DOMAIN npcs
         THEN V1_get_text(tm, npcs[role.id].nameTextMapHash)
         ELSE Narrator
    ELSE IF role.type = "TALK_ROLE_PLAYER" THEN Traveler
    ELSE Narrator

SpeakerOf(v, tm, npcs, role) ==
    IF v = "v1" THEN V1_role_name(tm, npcs, role) ELSE get_speaker_name(tm, npcs, role)

-----------------------------------------------------------------------------
(* Parts of the state an operation does not use *)

TextIdle == hash_value = None /\ text_out = ""
ResolveIdle == raw_id = None /\ real_id = None
SpeakerIdle == role_in = NoRole /\ speaker_out = ""
TreeIdle == init_dialog = 0 /\ stack = <<>> /\ visited = {} /\ result = <<>>

NoQuest == [id |-> 0]
NoResult == [isNone |-> TRUE, dialogues |-> <<>>]
NoCoverage == [recorded |-> FALSE, dialogues |-> 0, offered |-> <<>>]
ChapterIdle ==
    /\ chapter_id = 0 /\ qi = 0 /\ quest_in = NoQuest /\ nested_out = NoResult
    /\ extraction_method = "" /\ chapter_output = <<>> /\ block = <<>>
    /\ content = NoResult /\ coverage = NoCoverage
SampleIdle ==
    /\ seed = None /\ sample_count = 0 /\ stream = <<>> /\ ambient = <<>>
    /\ runs = <<>>

chapterVars == <<chapter_id, qi, quest_in, nested_out, extraction_method,
                 chapter_output, block, content, coverage>>
sampleVars == <<seed, sample_count, stream, ambient, runs>>
textVars == <<hash_value, text_out>>
resolveVars == <<raw_id, real_id>>
speakerVars == <<role_in, speaker_out>>
treeVars == <<init_dialog, stack, visited, result>>
corpusVars == <<version, textmap, dialog_dict, npc_dict>>
questVars == <<main_quests, assigned>>
QuestIdle == main_quests = <<>> /\ assigned = <<>>

-----------------------------------------------------------------------------
(* Text Resolver: get_text called on a loaded (or failed) text table *)

Hashes == {None, 0, 100, 200, 999}

InitText ==
    /\ version \in Versions
    /\ textmap \in TextMaps
    /\ dialog_dict = <<>>
    /\ npc_dict = <<>>
    /\ pc = "init"
    /\ QuestIdle /\ TextIdle /\ ResolveIdle /\ SpeakerIdle /\ TreeIdle /\ ChapterIdle /\ SampleIdle

GetText ==
    /\ pc \in {"init", "called"}
    /\ \E h \in Hashes :
        /\ hash_value' = h
        /\ text_out' = GetTextOf(version, textmap, h)
    /\ pc' = "called"
    /\ UNCHANGED <<corpusVars, questVars, resolveVars, speakerVars, treeVars, chapterVars, sampleVars>>

NextText == GetText

SpecText == InitText /\ [][NextText]_vars

-----------------------------------------------------------------------------
(* Identifier Resolver: find_dialog_id over every key set of a small universe *)

KeyUniverse == {5, 10, 55, 65, 155, 655}
RawIds == {0, 5, 7, 55}

InitResolve ==
    /\ version = "v1"
    /\ textmap = DefaultTextMap
    /\ \E K \in SUBSET KeyUniverse : dialog_dict = [k \in K |-> BareNode]
    /\ npc_dict = <<>>
    /\ pc = "init"
    /\ QuestIdle /\ TextIdle /\ ResolveIdle /\ SpeakerIdle /\ TreeIdle /\ ChapterIdle /\ SampleIdle

FindDialogId ==
    /\ pc \in {"init", "resolved"}
    /\ \E r \in RawIds :
        /\ raw_id' = r
        /\ real_id' = find_dialog_id(dialog_dict, r)
    /\ pc' = "resolved"
    /\ UNCHANGED <<corpusVars, questVars, textVars, speakerVars, treeVars, chapterVars, sampleVars>>

NextResolve == FindDialogId

SpecResolve == InitResolve /\ [][NextResolve]_vars

-----------------------------------------------------------------------------
(* Speaker Resolver: the label computed for one node *)

InitSpeaker ==
    /\ version \in Versions
    /\ textmap = DefaultTextMap
    /\ dialog_dict = <<>>
    /\ npc_dict \in NpcDicts
    /\ pc = "init"
    /\ QuestIdle /\ TextIdle /\ ResolveIdle /\ SpeakerIdle /\ TreeIdle /\ ChapterIdle /\ SampleIdle

GetSpeakerName ==
    /\ pc \in {"init", "spoke"}
    /\ \E role \in Roles :
        /\ role_in' = role
        /\ speaker_out' = SpeakerOf(version, textmap, npc_dict, role)
    /\ pc' = "spoke"
    /\ UNCHANGED <<corpusVars, questVars, textVars, resolveVars, treeVars, chapterVars, sampleVars>>

NextSpeaker == GetSpeakerName

SpecSpeaker == InitSpeaker /\ [][NextSpeaker]_vars

-----------------------------------------------------------------------------
(* Properties of the Text Resolver, the Identifier Resolver and the Speaker
   Resolver *)

\* what the Text Resolver contract gives for hash h over table tm
ContractText(tm, h) ==
    IF h = 0 \/ h = None THEN ""
    ELSE IF tm.isDict /\ ToString(h) \in DOMAIN tm.map THEN tm.map[ToString(h)]
    ELSE Missing(h)

\* C7: the Text Resolver never fails: an empty or zero hash gives the empty
\* string, a hash whose string form is a key of the table gives the mapped
\* string, and any other hash h gives "[Missing:h]", also when the table
\* failed to load and degraded to empty.
C7_TextResolverTotal ==
    pc = "called" => text_out = ContractText(textmap, hash_value)

\* the same contract for ArchonQuestExtractorV2.get_text alone
C7_HoldsForV2 ==
    (pc = "called" /\ version = "v2") => text_out = ContractText(textmap, hash_value)

RECURSIVE NumDigits(_)
NumDigits(n) == IF n < 10 THEN 1 ELSE 1 + NumDigits(n \div 10)

RECURSIVE Pow10(_)
Pow10(k) == IF k = 0 THEN 1 ELSE 10 * Pow10(k - 1)

\* the number whose decimal string is digit d followed by the decimal string of r
PrependDigit(d, r) == d * Pow10(NumDigits(r)) + r

\* C3: the Identifier Resolver returns r unchanged when r is a known node
\* identifier; otherwise the candidate with the smallest digit d in 0..9
\* prepended to the decimal string of r that is a known identifier (resolve(55)
\* = 655 when 55 is unknown and 655 is the first known candidate); and
\* NOT_FOUND when there is no such candidate.
C3_ResolverSmallestPrefix ==
    pc = "resolved" =>
        LET known == DOMAIN dialog_dict
            hits == {d \in Digits : PrependDigit(d, raw_id) \in known}
        IN /\ raw_id \in known => real_id = raw_id
           /\ (raw_id \notin known /\ hits # {}) =>
                \E d \in hits : /\ \A e \in hits : d <= e
                                /\ real_id = PrependDigit(d, raw_id)
           /\ (raw_id \notin known /\ hits = {}) => real_id = None
           /\ (raw_id = 55 /\ 55 \notin known /\ 155 \notin known /\ 655 \in known)
                => real_id = 655

\* 55 is unknown, both 155 and 655 are known: the smaller prefix was taken
C3_Witness ==
    /\ pc = "resolved" /\ raw_id = 55 /\ real_id = 155
    /\ 55 \notin DOMAIN dialog_dict /\ 655 \in DOMAIN dialog_dict

\* the label the Speaker Resolver rule set gives, rules tried in order
RuleLabel(tm, npcs, role) ==
    IF ~role.present \/ role.type = "TALK_ROLE_NARRATOR" THEN Narrator
    ELSE IF role.type = "TALK_ROLE_PLAYER" THEN Traveler
    ELSE IF role.type = "TALK_ROLE_NPC" /\ role.id \in DOMAIN npcs
         THEN ContractText(tm, npcs[role.id].nameTextMapHash)
         ELSE Unknown

\* C4: the Speaker Resolver returns, for every node, the label of the first
\* matching rule: narrator when the role kind is NARRATOR or the descriptor is
\* absent, traveler for PLAYER, the resolved display name for an NPC whose
\* character id is registered, unknown otherwise; a node without role
\* information is spoken by the narrator.
C4_SpeakerRuleOrder ==
    pc = "spoke" => speaker_out = RuleLabel(textmap, npc_dict, role_in)

-----------------------------------------------------------------------------
(* Dialogue Graph Traversal: extract_dialog_tree, one recursive call or one
   loop iteration per step.  The lists the recursive calls return are
   concatenated in call order, so the lines are kept in one sequence. *)

\* the traversal state threaded through the recursion
TreeState == [visited |-> visited, result |-> result, stack |-> stack]

V2_Line(id) ==
    [id |-> id,
     speaker |-> get_speaker_name(textmap, npc_dict, dialog_dict[id].talkRole),
     text |-> get_text(textmap, dialog_dict[id].talkContentTextMapHash)]

V1_Line(id) ==
    [id |-> id,
     speaker |-> V1_role_name(textmap, npc_dict, dialog_dict[id].talkRole),
     text |-> V1_get_text(textmap, dialog_dict[id].talkContentTextMapHash)]

OnPath(st) == {st.stack[i].id : i \in 1 .. Len(st.stack)}

\* extract_dialog_tree testing the current recursion path instead of the visited set
extract_dialog_tree_on_path(dialog_id, st) ==
    IF dialog_id \in OnPath(st) THEN st
    ELSE IF dialog_id \notin DOMAIN dialog_dict
         THEN [st EXCEPT !.visited = @ \cup {dialog_id}]
         ELSE [visited |-> st.visited \cup {dialog_id},
               result |-> IF Truthy(dialog_dict[dialog_id].talkContentTextMapHash)
                          THEN Append(st.result, V2_Line(dialog_id))
                          ELSE st.result,
               stack |-> Append(st.stack, [id |-> dialog_id, idx |-> 1])]

\* ArchonQuestExtractorV2.extract_dialog_tree up to its loop: the visited test,
\* the lookup and the node's own line
extract_dialog_tree(dialog_id, st) ==
    IF dialog_id \in st.visited THEN st
    ELSE IF dialog_id \notin DOMAIN dialog_dict
         THEN [st EXCEPT !.visited = @ \cup {dialog_id}]
         ELSE [visited |-> st.visited \cup {dialog_id},
               result |-> IF Truthy(dialog_dict[dialog_id].talkContentTextMapHash)
                          THEN Append(st.result, V2_Line(dialog_id))
                          ELSE st.result,
               stack |-> Append(st.stack, [id |-> dialog_id, idx |-> 1])]

\* ArchonQuestExtractor.extract_dialog_tree up to its loop
V1_extract_dialog_tree(dialog_id, st) ==
    LET real_dialog_id == find_dialog_id(dialog_dict, dialog_id)
    IN IF real_dialog_id = None \/ real_dialog_id \in st.visited THEN st
       ELSE [visited |-> st.visited \cup {real_dialog_id},
             result |-> IF V1_Line(real_dialog_id).text # ""
                        THEN Append(st.result, V1_Line(real_dialog_id))
                        ELSE st.result,
             stack |-> Append(st.stack, [id |-> real_dialog_id, idx |-> 1])]

\* the successor loop walking the list from its end
next_dialog_at_reversed(next_dialogs, idx) == next_dialogs[Len(next_dialogs) - idx + 1]

\* "for next_id in next_dialogs": the idx-th successor, in stored order
next_dialog_at(next_dialogs, idx) == next_dialogs[idx]

\* the body of "for next_id in next_dialogs" of the v2 traversal
follow_next(next_id, st) == extract_dialog_tree(next_id, st)

\* the body of "for next_id in next_dialogs" of the v1 traversal
V1_follow_next(next_id, st) ==
    IF ~Truthy(next_id) THEN st
    ELSE LET next_real_id == find_dialog_id(dialog_dict, next_id)
         IN IF Truthy(next_real_id) /\ next_real_id \notin st.visited
            THEN V1_extract_dialog_tree(next_id, st)
            ELSE st

\* extract_from_dialog_tree for one talk: initDialog, then its '6'-prefixed form
dialog_ids_to_try(init) == <<init, int(<<6>> \o str(init))>>

V2_start_talk(init, st) ==
    LET ids == dialog_ids_to_try(init)
    IN IF ~Truthy(init) THEN st
       ELSE IF ids[1] \in DOMAIN dialog_dict THEN extract_dialog_tree(ids[1], st)
       ELSE IF ids[2] \in DOMAIN dialog_dict THEN extract_dialog_tree(ids[2], st)
       ELSE st

\* extract_chapter of v1 for one talk: extract_dialog_tree(init_dialog)
V1_start_talk(init, st) ==
    IF ~Truthy(init) THEN st ELSE V1_extract_dialog_tree(init, st)

SetTreeState(st) ==
    /\ visited' = st.visited
    /\ result' = st.result
    /\ stack' = st.stack

Top == stack[Len(stack)]
Pop(s) == SubSeq(s, 1, Len(s) - 1)

\* when each step of the traversal can be taken
CanStartTalk == pc = "talk"
CanFollowNext ==
    pc = "walk" /\ stack # <<>> /\ Top.idx <= Len(dialog_dict[Top.id].nextDialogs)
CanReturn ==
    pc = "walk" /\ stack # <<>> /\ Top.idx > Len(dialog_dict[Top.id].nextDialogs)
CanFinish == pc = "walk" /\ stack = <<>>

\* the traversal of one talk begins with a fresh visited set
StartTalk ==
    /\ CanStartTalk
    /\ SetTreeState(IF version = "v1"
                    THEN V1_start_talk(init_dialog, TreeState)
                    ELSE V2_start_talk(init_dialog, TreeState))
    /\ pc' = "walk"
    /\ UNCHANGED <<corpusVars, questVars, textVars, resolveVars, speakerVars, init_dialog,
                   chapterVars, sampleVars>>

\* one iteration of the successor loop of the innermost call
FollowNext ==
    /\ CanFollowNext
    /\ LET next_id == next_dialog_at(dialog_dict[Top.id].nextDialogs, Top.idx)
           st == [TreeState EXCEPT !.stack[Len(stack)].idx = @ + 1]
       IN SetTreeState(IF version = "v1"
                       THEN V1_follow_next(next_id, st)
                       ELSE follow_next(next_id, st))
    /\ UNCHANGED <<corpusVars, questVars, textVars, resolveVars, speakerVars, init_dialog, pc,
                   chapterVars, sampleVars>>

\* the innermost call has no successor left: it returns its lines
Return ==
    /\ CanReturn
    /\ stack' = Pop(stack)
    /\ UNCHANGED <<corpusVars, questVars, textVars, resolveVars, speakerVars, init_dialog, pc,
                   visited, result, chapterVars, sampleVars>>

\* the outermost call has returned
Finish ==
    /\ CanFinish
    /\ pc' = "done"
    /\ UNCHANGED <<corpusVars, questVars, textVars, resolveVars, speakerVars, treeVars,
                   chapterVars, sampleVars>>

(* The graphs traversed: every dictionary over a subset of TreeKeys whose
   successor lists hold at most MaxEdges identifiers in all. *)

MaxEdges == 3
TreeKeys == {1, 2, 62}
TreeSuccIds == {1, 2, 62}
TreeHashes == {0, 100}
TreeRoots == {1, 2}

NodesWithLen(l) ==
    [talkContentTextMapHash : TreeHashes,
     nextDialogs : [1 .. l -> TreeSuccIds],
     talkRole : {NoRole}]

RECURSIVE GraphsOver(_, _)
GraphsOver(K, e) ==
    IF K = {} THEN {<<>>}
    ELSE LET k == CHOOSE x \in K : TRUE
         IN UNION {{(k :> n) @@ g : n \in NodesWithLen(l),
                                    g \in GraphsOver(K \ {k}, e - l)} : l \in 0 .. e}

TreeGraphs == UNION {GraphsOver(K, MaxEdges) : K \in SUBSET TreeKeys}

InitTree ==
    /\ version \in Versions
    /\ textmap = DefaultTextMap
    /\ dialog_dict \in TreeGraphs
    /\ npc_dict = <<>>
    /\ pc = "talk"
    /\ init_dialog \in TreeRoots
    /\ stack = <<>> /\ visited = {} /\ result = <<>>
    /\ QuestIdle /\ TextIdle /\ ResolveIdle /\ SpeakerIdle /\ ChapterIdle /\ SampleIdle

NextTree == StartTalk \/ FollowNext \/ Return \/ Finish

SpecTree == InitTree /\ [][NextTree]_vars

-----------------------------------------------------------------------------
(* Properties of the traversal *)

Range(s) == {s[i] : i \in 1 .. Len(s)}

\* the canonical successors of node n: its successor identifiers passed through
\* the Identifier Resolver
Succ(n) == {find_dialog_id(dialog_dict, s) : s \in Range(dialog_dict[n].nextDialogs)}
           \ {None}

RECURSIVE Closure(_)
Closure(S) ==
    LET T == S \cup UNION {Succ(n) : n \in S}
    IN IF T = S THEN S ELSE Closure(T)

\* the nodes reachable from n in one or more steps
ReachPlus(n) == Closure(Succ(n))

HasCycle == \E n \in DOMAIN dialog_dict : n \in ReachPlus(n)

ResolvedRoot == find_dialog_id(dialog_dict, init_dialog)

\* the nodes reachable from the resolved root, itself included
Reachable == IF ResolvedRoot = None THEN {} ELSE Closure({ResolvedRoot})

NoDuplicateIds == \A i, j \in 1 .. Len(result) : result[i].id = result[j].id => i = j

\* the loop iterations and returns still owed by the calls on the stack
RECURSIVE FrameWork(_)
FrameWork(s) ==
    IF s = <<>> THEN 0
    ELSE LET f == s[Len(s)]
         IN (Len(dialog_dict[f.id].nextDialogs) - f.idx + 2) + FrameWork(Pop(s))

\* the loop iterations and returns of the nodes not yet entered
RECURSIVE NodeWork(_)
NodeWork(K) ==
    IF K = {} THEN 0
    ELSE LET k == CHOOSE x \in K : TRUE
         IN (Len(dialog_dict[k].nextDialogs) + 1) + NodeWork(K \ {k})

\* a natural number that bounds the steps the traversal has left
Measure ==
    (CASE pc = "talk" -> 2 [] pc = "walk" -> 1 [] OTHER -> 0)
    + FrameWork(stack) + NodeWork(DOMAIN dialog_dict \ visited)

\* some step of the traversal can be taken
CanStep == CanStartTalk \/ CanFollowNext \/ CanReturn \/ CanFinish

\* C1: on every dialogue graph that contains a cycle, from every root, the
\* traversal terminates (it never stops before it is done, and every step
\* lowers a natural-number measure) and every canonical node identifier appears
\* at most once in the returned lines.
C1_CycleSafe ==
    /\ []((NoDuplicateIds /\ (pc = "done" \/ CanStep)) \/ ~HasCycle)
    /\ [][(Measure' < Measure /\ Measure' >= 0) \/ ~HasCycle]_vars

\* the root lies on a cycle, the traversal ran into it and is done
C1_Witness ==
    /\ pc = "done"
    /\ ResolvedRoot # None /\ ResolvedRoot \in ReachPlus(ResolvedRoot)
    /\ Len(result) >= 2

\* the reachable nodes whose resolved text is non-empty
ReachableWithText ==
    {n \in Reachable :
        ContractText(textmap, dialog_dict[n].talkContentTextMapHash) # ""}

\* C2: on every acyclic dialogue graph, from every root, the number of lines
\* the traversal returns equals the number of distinct nodes reachable from the
\* resolved root, successor identifiers followed through the Identifier
\* Resolver, whose resolved text is non-empty.
C2_LengthIsReachableCount ==
    (pc = "done" /\ ~HasCycle) => Len(result) = Cardinality(ReachableWithText)

\* the same count for the v1 traversal alone, which resolves every successor
C2_HoldsForV1 ==
    (pc = "done" /\ ~HasCycle /\ version = "v1")
        => Len(result) = Cardinality(ReachableWithText)

-----------------------------------------------------------------------------
(* Nested-Structure Extractor: extract_from_codexquest.
   A CodexQuest file is [kind, hasSections, sections]: kind "absent" (no file),
   "corrupt" (json.load raises) or "doc"; a section is [hasNodes, nodes], a node
   [speaker_hash, hasEntries, entries], an entry [id, text_hash].  The has*
   flags say whether the key ('GFLHMKOOHHA', 'JKNIDKEDDMB', 'IINLCABCIDE') is
   present. *)

\* speaker.startswith('['): of the texts get_text can return here, the
\* placeholders start with '[' and the table's values do not
StartsWithBracket(s) == s \notin TextValues

\* lines 103-108: the node's speaker, resolved once per node
codex_speaker(node) ==
    LET speaker == IF Truthy(node.speaker_hash)
                   THEN get_text(textmap, node.speaker_hash)
                   ELSE Narrator
    IN IF StartsWithBracket(speaker) \/ speaker = "" THEN Narrator ELSE speaker

\* lines 110-122: the entries of one node
RECURSIVE codex_entries(_, _)
codex_entries(node, entries) ==
    IF entries = <<>> THEN <<>>
    ELSE LET e == Head(entries)
         IN (IF Truthy(e.text_hash)
             THEN <<[id |-> e.id, text |-> get_text(textmap, e.text_hash),
                     speaker |-> codex_speaker(node)]>>
             ELSE <<>>)
            \o codex_entries(node, Tail(entries))

\* lines 102-122: the nodes of one section
RECURSIVE codex_nodes(_)
codex_nodes(nodes) ==
    IF nodes = <<>> THEN <<>>
    ELSE (IF Head(nodes).hasEntries
          THEN codex_entries(Head(nodes), Head(nodes).entries)
          ELSE <<>>)
         \o codex_nodes(Tail(nodes))

\* lines 98-122: the sections of the file
RECURSIVE codex_sections(_)
codex_sections(sections) ==
    IF sections = <<>> THEN <<>>
    ELSE (IF Head(sections).hasNodes THEN codex_nodes(Head(sections).nodes) ELSE <<>>)
         \o codex_sections(Tail(sections))

codex_dialogues(codex) ==
    IF codex.hasSections THEN codex_sections(codex.sections) ELSE <<>>

\* extract_from_codexquest ending in "return dialogues"
extract_from_codexquest_empty_list(codex) ==
    IF codex.kind # "doc" THEN NoResult
    ELSE [isNone |-> FALSE, dialogues |-> codex_dialogues(codex)]

\* ArchonQuestExtractorV2.extract_from_codexquest
extract_from_codexquest(codex) ==
    IF codex.kind = "absent" THEN NoResult
    ELSE IF codex.kind = "corrupt" THEN NoResult
    ELSE IF codex_dialogues(codex) # <<>>
         THEN [isNone |-> FALSE, dialogues |-> codex_dialogues(codex)]
         ELSE NoResult

-----------------------------------------------------------------------------
(* Graph path of one quest: extract_from_dialog_tree *)

\* extract_dialog_tree run to its return: the loop and the recursive calls
RECURSIVE V2_walk(_)
V2_walk(st) ==
    IF st.stack = <<>> THEN st
    ELSE LET top == st.stack[Len(st.stack)]
             next_dialogs == dialog_dict[top.id].nextDialogs
         IN IF top.idx <= Len(next_dialogs)
            THEN V2_walk(follow_next(next_dialog_at(next_dialogs, top.idx),
                                     [st EXCEPT !.stack[Len(st.stack)].idx = @ + 1]))
            ELSE V2_walk([st EXCEPT !.stack = Pop(@)])

FreshTree == [visited |-> {}, result |-> <<>>, stack |-> <<>>]

\* lines 145-159 for one talk: the lines of its dialogue tree
talk_dialogues(init) == V2_walk(V2_start_talk(init, FreshTree)).result

RECURSIVE all_talk_dialogues(_)
all_talk_dialogues(quest_talks) ==
    IF quest_talks = <<>> THEN <<>>
    ELSE talk_dialogues(Head(quest_talks)) \o all_talk_dialogues(Tail(quest_talks))

\* ArchonQuestExtractorV2.extract_from_dialog_tree; quest_talks holds the
\* initDialog of every talk whose questId is the quest's
extract_from_dialog_tree(quest_talks) ==
    IF quest_talks = <<>> THEN NoResult
    ELSE IF all_talk_dialogues(quest_talks) # <<>>
         THEN [isNone |-> FALSE, dialogues |-> all_talk_dialogues(quest_talks)]
         ELSE NoResult

-----------------------------------------------------------------------------
(* Hybrid Selector and the chapter transcript: extract_chapter *)

\* the quest loop running both paths and concatenating their lines
select_dialogues_merged(quest) ==
    LET nested == extract_from_codexquest(quest.codex)
        tree == extract_from_dialog_tree(quest.talks)
    IN [nested |-> nested,
        dialogues |-> [isNone |-> nested.isNone /\ tree.isNone,
                       dialogues |-> nested.dialogues \o tree.dialogues],
        method |-> IF nested.isNone THEN "DialogTree" ELSE "CodexQuest"]

\* lines 253-260: CodexQuest first, DialogTree only when it returned None
select_dialogues(quest) ==
    LET nested == extract_from_codexquest(quest.codex)
    IN IF nested.isNone
       THEN [nested |-> nested,
             dialogues |-> extract_from_dialog_tree(quest.talks),
             method |-> "DialogTree"]
       ELSE [nested |-> nested, dialogues |-> nested, method |-> "CodexQuest"]

\* one line of the transcript; from says which path produced a dialogue line
OutLine(kind, speaker, text, id, from) ==
    [kind |-> kind, speaker |-> speaker, text |-> text, id |-> id, from |-> from]

\* lines 272-276: f"{speaker}：{text}" for every dialogue with text
RECURSIVE dialogue_lines_of(_, _)
dialogue_lines_of(dialogues, method) ==
    IF dialogues = <<>> THEN <<>>
    ELSE LET dlg == Head(dialogues)
         IN (IF dlg.text # ""
             THEN <<OutLine("dialogue", dlg.speaker, dlg.text, dlg.id, method)>>
             ELSE <<>>)
            \o dialogue_lines_of(Tail(dialogues), method)

\* lines 262-278: the block of one quest
quest_block(quest, sel) ==
    IF sel.dialogues.isNone \/ sel.dialogues.dialogues = <<>> THEN <<>>
    ELSE <<OutLine("rule", "", "", 0, ""),
           OutLine("quest", "", get_text(textmap, quest.titleTextMapHash), quest.id, "")>>
         \o (IF get_text(textmap, quest.descTextMapHash) # ""
             THEN <<OutLine("desc", "", get_text(textmap, quest.descTextMapHash), 0, "")>>
             ELSE <<>>)
         \o <<OutLine("rule", "", "", 0, ""), OutLine("blank", "", "", 0, "")>>
         \o dialogue_lines_of(sel.dialogues.dialogues, sel.method)
         \o <<OutLine("blank", "", "", 0, "")>>

-----------------------------------------------------------------------------
(* Chapter Extractor: extract_chapter over the quests of one chapter *)

\* MainQuestExcelConfigData: quest 11 names its chapter by chapterId, quest 12
\* by series (None: the field is absent)
MainQuestTable ==
    <<[id |-> 12, series |-> 1, chapterId |-> None],
      [id |-> 11, series |-> None, chapterId |-> 1]>>

\* sorted(..., key=lambda x: x.get('id', 0))
RECURSIVE SortById(_)
SortById(S) ==
    IF S = {} THEN <<>>
    ELSE LET m == CHOOSE x \in S : \A y \in S : x.id <= y.id
         IN <<m>> \o SortById(S \ {m})

\* ArchonQuestExtractorV2.get_chapter_main_quests
get_chapter_main_quests(quests, cid) ==
    SortById({quests[i] : i \in {j \in 1 .. Len(quests) :
                 quests[j].series = cid \/ quests[j].chapterId = cid}})

\* lines 235-241: the banner
Banner(cid) ==
    <<OutLine("rule", "", "", 0, ""),
      OutLine("num", "", get_text(textmap, 100), 0, ""),
      OutLine("title", "", get_text(textmap, 100), 0, ""),
      OutLine("id", "", "", cid, ""),
      OutLine("rule", "", "", 0, ""),
      OutLine("blank", "", "", 0, "")>>

(* What a quest reads when it is processed: its CodexQuest file and the talks
   whose questId is the quest's.  A document is built from at most MaxEntries
   entries; each entry after the first continues the node, opens a node or opens
   a section. *)

MaxEntries == 2
MaxTalks == 2
EntryHashes == {0, 100, 200}
SpeakerHashes == {0, 100}
DescHashes == {0, 100}
TalkInits == {0, 1, 2}
ChapterIds == {1, 2}

\* the dialogue nodes of the chapter specification: 1 -> 62, both with text
ChapterDialogs ==
    (1 :> [talkContentTextMapHash |-> 100, nextDialogs |-> <<62>>, talkRole |-> NoRole])
    @@ (62 :> [talkContentTextMapHash |-> 100, nextDialogs |-> <<>>, talkRole |-> NoRole])

NewNode(speaker_hash, entry) ==
    [speaker_hash |-> speaker_hash, hasEntries |-> TRUE, entries |-> <<entry>>]
NewSection(node) == [hasNodes |-> TRUE, nodes |-> <<node>>]

\* sections extended by one entry that continues the last node ("none"), opens
\* a node in the last section ("node") or opens a section ("section")
AddEntry(sections, brk, speaker_hash, entry) ==
    LET ns == Len(sections)
    IN IF brk = "section" \/ ns = 0
       THEN Append(sections, NewSection(NewNode(speaker_hash, entry)))
       ELSE LET nn == Len(sections[ns].nodes)
            IN IF brk = "node"
               THEN [sections EXCEPT ![ns].nodes = Append(@, NewNode(speaker_hash, entry))]
               ELSE [sections EXCEPT ![ns].nodes[nn].entries = Append(@, entry)]

\* every list of sections holding exactly n entries, numbered 1..n in order
RECURSIVE SectionsWith(_)
SectionsWith(n) ==
    IF n = 0 THEN {<<>>}
    ELSE UNION {
           {AddEntry(s, "none", 0, [id |-> n, text_hash |-> h]) : h \in EntryHashes}
           \cup {AddEntry(s, b, sp, [id |-> n, text_hash |-> h]) :
                    b \in {"node", "section"}, sp \in SpeakerHashes, h \in EntryHashes}
           : s \in SectionsWith(n - 1) \ {<<>>}}
         \cup (IF n = 1
               THEN {AddEntry(<<>>, "section", sp, [id |-> 1, text_hash |-> h]) :
                        sp \in SpeakerHashes, h \in EntryHashes}
               ELSE {})

Doc(hasSections, sections) ==
    [kind |-> "doc", hasSections |-> hasSections, sections |-> sections]

CodexFiles ==
    {[kind |-> "absent", hasSections |-> FALSE, sections |-> <<>>],
     [kind |-> "corrupt", hasSections |-> FALSE, sections |-> <<>>],
     Doc(FALSE, <<>>),
     Doc(TRUE, <<>>),
     Doc(TRUE, <<[hasNodes |-> FALSE, nodes |-> <<>>]>>),
     Doc(TRUE, <<[hasNodes |-> TRUE,
                  nodes |-> <<[speaker_hash |-> 0, hasEntries |-> FALSE,
                               entries |-> <<>>]>>]>>)}
    \cup {Doc(TRUE, s) : s \in UNION {SectionsWith(n) : n \in 1 .. MaxEntries}}

TalkLists == UNION {[1 .. n -> TalkInits] : n \in 0 .. MaxTalks}

QuestRecord(mq, desc, codex, talks) ==
    [id |-> mq.id, titleTextMapHash |-> 100, descTextMapHash |-> desc,
     codex |-> codex, talks |-> talks]

OneLineDoc == Doc(TRUE, <<NewSection(NewNode(100, [id |-> 1, text_hash |-> 100]))>>)

\* the first quest of the chapter reads one of three things, the later ones
\* anything
QuestInputs(i, mq) ==
    IF i = 1
    THEN {QuestRecord(mq, 100, Doc(FALSE, <<>>), <<>>),
          QuestRecord(mq, 100, Doc(FALSE, <<>>), <<2>>),
          QuestRecord(mq, 0, OneLineDoc, <<>>)}
    ELSE {QuestRecord(mq, d, c, t) : d \in DescHashes, c \in CodexFiles, t \in TalkLists}

InitChapter ==
    /\ version = "v2"
    /\ textmap = DefaultTextMap
    /\ dialog_dict = ChapterDialogs
    /\ npc_dict = <<>>
    /\ pc = "chapter"
    /\ chapter_id \in ChapterIds
    /\ qi = 0 /\ quest_in = NoQuest /\ nested_out = NoResult
    /\ extraction_method = "" /\ chapter_output = <<>> /\ block = <<>>
    /\ content = NoResult /\ coverage = NoCoverage
    /\ QuestIdle /\ TextIdle /\ ResolveIdle /\ SpeakerIdle /\ TreeIdle /\ SampleIdle

\* lines 229-241: no main quests returns None, otherwise the banner is written
BeginChapter ==
    /\ pc = "chapter"
    /\ IF get_chapter_main_quests(MainQuestTable, chapter_id) = <<>>
       THEN /\ pc' = "returned"
            /\ UNCHANGED chapter_output
       ELSE /\ pc' = "quests"
            /\ chapter_output' = Banner(chapter_id)
    /\ UNCHANGED <<chapter_id, qi, quest_in, nested_out, extraction_method, block, content,
                   coverage>>
    /\ UNCHANGED <<corpusVars, questVars, textVars, resolveVars, speakerVars, treeVars, sampleVars>>

\* lines 243-280: one iteration of the quest loop
ProcessQuest ==
    /\ pc = "quests"
    /\ qi < Len(get_chapter_main_quests(MainQuestTable, chapter_id))
    /\ \E quest \in QuestInputs(qi + 1,
                     get_chapter_main_quests(MainQuestTable, chapter_id)[qi + 1]) :
         LET sel == select_dialogues(quest)
         IN /\ quest_in' = quest
            /\ nested_out' = sel.nested
            /\ extraction_method' = sel.method
            /\ block' = quest_block(quest, sel)
            /\ chapter_output' = chapter_output \o quest_block(quest, sel)
    /\ qi' = qi + 1
    /\ UNCHANGED <<pc, chapter_id, content, coverage>>
    /\ UNCHANGED <<corpusVars, questVars, textVars, resolveVars, speakerVars, treeVars, sampleVars>>

\* line 282
EndChapter ==
    /\ pc = "quests"
    /\ qi = Len(get_chapter_main_quests(MainQuestTable, chapter_id))
    /\ content' = IF Len(chapter_output) > 7
                  THEN [isNone |-> FALSE, dialogues |-> chapter_output]
                  ELSE NoResult
    /\ pc' = "returned"
    /\ UNCHANGED <<chapter_id, qi, quest_in, nested_out, extraction_method,
                   chapter_output, block, coverage>>
    /\ UNCHANGED <<corpusVars, questVars, textVars, resolveVars, speakerVars, treeVars, sampleVars>>

\* line 319: "if line.strip()" on the rendered line
line_is_blank(line) ==
    \/ line.kind = "blank"
    \/ line.kind \in {"num", "title"} /\ line.text = ""

\* line 320: "：" in line.  The rendered line holds the fullwidth colon when its
\* template does (line 275 f"{speaker}：{text}", line 268 f"任务描述：{quest_desc}");
\* the templates of the other lines use none and no text of the corpus here has one
has_fullwidth_colon(line) == line.kind \in {"dialogue", "desc"}

\* lines 319-320 and 341-347: the chapter's dialogue_lines and the records the
\* sampling loop builds from them
coverage_of(cid, lines) ==
    LET nonblank == SelectSeq(lines, LAMBDA l : ~line_is_blank(l))
        dialogue_lines == SelectSeq(nonblank, has_fullwidth_colon)
    IN [recorded |-> TRUE,
        dialogues |-> Len(dialogue_lines),
        offered |-> [i \in 1 .. Len(dialogue_lines) |->
                       [chapter_id |-> cid, line_index |-> i - 1,
                        text |-> dialogue_lines[i]]]]

\* lines 314-347 of extract_all for the chapter extract_chapter returned
ReportChapter ==
    /\ pc = "returned"
    /\ coverage' = IF content.isNone THEN NoCoverage
                   ELSE coverage_of(chapter_id, content.dialogues)
    /\ pc' = "reported"
    /\ UNCHANGED <<chapter_id, qi, quest_in, nested_out, extraction_method,
                   chapter_output, block, content>>
    /\ UNCHANGED <<corpusVars, questVars, textVars, resolveVars, speakerVars, treeVars, sampleVars>>

NextChapter == BeginChapter \/ ProcessQuest \/ EndChapter \/ ReportChapter

SpecChapter == InitChapter /\ [][NextChapter]_vars

-----------------------------------------------------------------------------
(* Properties of the Hybrid Selector, stated over the quest processed last *)

\* the positions <<section, node, entry>> of the entries of a CodexQuest file
Positions(codex) ==
    IF codex.kind # "doc" \/ ~codex.hasSections THEN {}
    ELSE UNION {UNION {{<<s, n, e>> : e \in 1 .. Len(codex.sections[s].nodes[n].entries)}
                       : n \in 1 .. Len(codex.sections[s].nodes)}
                : s \in 1 .. Len(codex.sections)}

EntryAt(codex, p) == codex.sections[p[1]].nodes[p[2]].entries[p[3]]

\* document order
Before(p, q) ==
    \/ p[1] < q[1]
    \/ p[1] = q[1] /\ p[2] < q[2]
    \/ p[1] = q[1] /\ p[2] = q[2] /\ p[3] < q[3]

RECURSIVE InDocumentOrder(_)
InDocumentOrder(P) ==
    IF P = {} THEN <<>>
    ELSE LET first == CHOOSE p \in P : \A q \in P \ {p} : Before(p, q)
         IN <<first>> \o InDocumentOrder(P \ {first})

\* entries with a non-zero text hash
Qualifying(codex) == {p \in Positions(codex) : EntryAt(codex, p).text_hash # 0}

\* the speaker of the node at p: its resolved name, or narrator when that is
\* empty or the missing-text placeholder
NodeSpeakerAt(codex, p) ==
    LET h == codex.sections[p[1]].nodes[p[2]].speaker_hash
        name == IF h = 0 THEN "" ELSE get_text(textmap, h)
    IN IF name = "" \/ name = Missing(h) THEN Narrator ELSE name

\* the transcript line of the entry at p
NestedLineAt(codex, p) ==
    OutLine("dialogue", NodeSpeakerAt(codex, p),
            get_text(textmap, EntryAt(codex, p).text_hash), EntryAt(codex, p).id,
            "CodexQuest")

\* the nested-path lines of a file, in document order: the qualifying entries
\* that have text
NestedLines(codex) ==
    LET order == InDocumentOrder({p \in Qualifying(codex) :
                                    get_text(textmap, EntryAt(codex, p).text_hash) # ""})
    IN [i \in 1 .. Len(order) |-> NestedLineAt(codex, order[i])]

IsDialogue(line) == line.kind = "dialogue"
DialogueLines(lines) == SelectSeq(lines, IsDialogue)

\* the lines the graph path would produce for the quest's talks
GraphLines(quest) == dialogue_lines_of(all_talk_dialogues(quest.talks), "DialogTree")

QuestProcessed == pc \in {"quests", "returned"} /\ qi >= 1

\* C5: a quest whose CodexQuest file exists and yields at least one line has a
\* block holding exactly the nested-path lines in document order and no line of
\* the graph path, whatever talks it has; the graph path is not chosen for it.
C5_NestedPathOnly ==
    (QuestProcessed /\ Qualifying(quest_in.codex) # {}) =>
        /\ extraction_method = "CodexQuest"
        /\ DialogueLines(block) = NestedLines(quest_in.codex)
        /\ \A i \in 1 .. Len(block) : block[i].from # "DialogTree"

\* a quest with one nested line whose talks would have given two graph lines
C5_Witness ==
    /\ QuestProcessed
    /\ Len(NestedLines(quest_in.codex)) = 1
    /\ Len(GraphLines(quest_in)) >= 2
    /\ Len(DialogueLines(block)) = 1

\* C6: extract_from_codexquest never returns an empty list; it returns None when
\* the quest has no file and when the file has no entry with a non-zero text
\* hash, and the selector then takes the graph path for the quest.
C6_AbsentNotEmpty ==
    /\ ~(~nested_out.isNone /\ nested_out.dialogues = <<>>)
    /\ (QuestProcessed /\ quest_in.codex.kind \in {"absent", "doc"}
          /\ Qualifying(quest_in.codex) = {}) =>
        /\ nested_out.isNone
        /\ extraction_method = "DialogTree"
        /\ DialogueLines(block) = GraphLines(quest_in)

\* a file whose entries all have a zero text hash, and talks that give lines
C6_Witness ==
    /\ QuestProcessed
    /\ Positions(quest_in.codex) # {}
    /\ Qualifying(quest_in.codex) = {}
    /\ nested_out.isNone
    /\ Len(DialogueLines(block)) >= 2

\* the other case: no file for the quest
C6_WitnessNoFile ==
    /\ QuestProcessed
    /\ quest_in.codex.kind = "absent"
    /\ Len(DialogueLines(block)) >= 1

-----------------------------------------------------------------------------
(* Coverage Reporter: the sampling pass of extract_all, run twice over the
   same stream of chapters.  A chapter is what extract_chapter returned for it:
   None, or its non-blank lines; a line either contains the speaker separator
   (a dialogue line) or does not. *)

MaxLines == 2
MaxCap == 2
NumChapters == 2
NumRuns == 2

\* the generator behind random.Random: its state is a residue, each draw
\* advances it
RngModulus == 20
\* random() < 0.1, as tenths
AdmitTenths == 1
Seeds == {None, 0, 11}
AmbientStates == {0, 11}

DialogueText == "speaker: text"
OtherText == "header"
LineTexts == {DialogueText, OtherText}

Contents == {[isNone |-> TRUE, lines |-> <<>>]}
            \cup {[isNone |-> FALSE, lines |-> l] :
                    l \in UNION {[1 .. n -> LineTexts] : n \in 0 .. MaxLines}}

Streams == [1 .. NumChapters -> Contents]

\* line 320: the lines holding the separator
has_separator(line) == line = DialogueText
dialogue_lines_of_content(c) == SelectSeq(c.lines, has_separator)

\* line 316: "if not content"
not_content(c) == c.isNone \/ c.lines = <<>>

rng_next(s) == (7 * s + 3) % RngModulus
\* rng.random(): the draw, as a numerator over RngModulus
random_draw(s) == rng_next(s)
\* rng.randrange(n) made after a random()
randrange_after(s, n) == rng_next(rng_next(s)) % n

\* line 310 with the seed ignored: always the module-level generator
make_rng_global(sd, amb) == amb

\* line 310: a private generator when a seed is given, else the module-level
\* one, whose state is whatever the process started with
make_rng(sd, amb) == IF sd # None THEN sd % RngModulus ELSE amb

\* line 342 admitting one record too many
reservoir_has_room_off_by_one(samples, k) == Len(samples) <= k

\* line 342
reservoir_has_room(samples, k) == Len(samples) < k

\* line 349
admits(u) == u * 10 < AdmitTenths * RngModulus

SampleRecord(ci, idx, line) == [chapter_id |-> ci, line_index |-> idx, text |-> line]

NoDraw == [i |-> 0, u |-> None, admitted |-> FALSE, slot |-> None]
IdleRun == [pc |-> "idle", ci |-> 0, li |-> 0, sample_lines |-> <<>>, rng |-> 0,
            last |-> NoDraw]

\* the dialogue lines of the chapters before position ci, plus li
RECURSIVE LinesBefore(_)
LinesBefore(ci) ==
    IF ci <= 1 THEN 0
    ELSE LinesBefore(ci - 1)
         + (IF not_content(stream[ci - 1]) THEN 0
            ELSE Len(dialogue_lines_of_content(stream[ci - 1])))
Consumed(run) == LinesBefore(run.ci) + run.li

\* lines 341-355 for one line of the chapter
sample_line(run, ci, idx, line, k) ==
    IF reservoir_has_room(run.sample_lines, k)
    THEN [run EXCEPT !.sample_lines = Append(@, SampleRecord(ci, idx, line)),
                     !.li = @ + 1,
                     !.last = [i |-> Consumed(run) + 1, u |-> None, admitted |-> TRUE,
                               slot |-> Len(run.sample_lines)]]
    ELSE IF admits(random_draw(run.rng))
         THEN [run EXCEPT !.sample_lines[randrange_after(run.rng, k) + 1] =
                              SampleRecord(ci, idx, line),
                          !.rng = rng_next(rng_next(@)),
                          !.li = @ + 1,
                          !.last = [i |-> Consumed(run) + 1, u |-> random_draw(run.rng),
                                    admitted |-> TRUE,
                                    slot |-> randrange_after(run.rng, k)]]
         ELSE [run EXCEPT !.rng = rng_next(@),
                          !.li = @ + 1,
                          !.last = [i |-> Consumed(run) + 1, u |-> random_draw(run.rng),
                                    admitted |-> FALSE, slot |-> None]]

InitSample ==
    /\ version = "v2"
    /\ textmap = DefaultTextMap
    /\ dialog_dict = <<>>
    /\ npc_dict = <<>>
    /\ pc = "report"
    /\ seed \in Seeds
    /\ sample_count \in 0 .. MaxCap
    /\ stream \in Streams
    /\ ambient \in [1 .. NumRuns -> AmbientStates]
    /\ runs = [r \in 1 .. NumRuns |-> IdleRun]
    /\ QuestIdle /\ TextIdle /\ ResolveIdle /\ SpeakerIdle /\ TreeIdle /\ ChapterIdle

SampleUnchanged ==
    UNCHANGED <<pc, seed, sample_count, stream, ambient, corpusVars, questVars, textVars,
                resolveVars, speakerVars, treeVars, chapterVars>>

\* lines 308-310: a run starts once the run before it has ended
StartRun(r) ==
    /\ runs[r].pc = "idle"
    /\ IF r = 1 THEN TRUE ELSE runs[r - 1].pc = "done"
    /\ runs' = [runs EXCEPT ![r] = [IdleRun EXCEPT !.pc = "running", !.ci = 1,
                                       !.rng = make_rng(seed, ambient[r])]]
    /\ SampleUnchanged

InChapter(r) == runs[r].pc = "running" /\ runs[r].ci <= Len(stream)

\* the chapter's sampling loop has lines left (lines 316, 340, 341)
HasLine(r) ==
    /\ ~not_content(stream[runs[r].ci])
    /\ sample_count > 0
    /\ runs[r].li < Len(dialogue_lines_of_content(stream[runs[r].ci]))

SampleLine(r) ==
    /\ InChapter(r)
    /\ HasLine(r)
    /\ runs' = [runs EXCEPT ![r] =
                  sample_line(@, @.ci, @.li,
                              dialogue_lines_of_content(stream[@.ci])[@.li + 1],
                              sample_count)]
    /\ SampleUnchanged

\* line 312: on to the next chapter
AdvanceChapter(r) ==
    /\ InChapter(r)
    /\ ~HasLine(r)
    /\ runs' = [runs EXCEPT ![r].ci = @ + 1, ![r].li = 0]
    /\ SampleUnchanged

EndRun(r) ==
    /\ runs[r].pc = "running"
    /\ runs[r].ci > Len(stream)
    /\ runs' = [runs EXCEPT ![r].pc = "done"]
    /\ SampleUnchanged

NextSample ==
    \E r \in 1 .. NumRuns :
        StartRun(r) \/ SampleLine(r) \/ AdvanceChapter(r) \/ EndRun(r)

SpecSample == InitSample /\ [][NextSample]_vars

-----------------------------------------------------------------------------
(* Properties of the sampling pass *)

Min(a, b) == IF a <= b THEN a ELSE b

\* the sample records of the dialogue lines of one chapter, in order
ChapterRecords(ci) ==
    IF not_content(stream[ci]) THEN <<>>
    ELSE [idx \in 1 .. Len(dialogue_lines_of_content(stream[ci])) |->
            SampleRecord(ci, idx - 1, dialogue_lines_of_content(stream[ci])[idx])]

\* the global stream of dialogue lines, across the chapters
RECURSIVE RecordsThrough(_)
RecordsThrough(ci) ==
    IF ci = 0 THEN <<>> ELSE RecordsThrough(ci - 1) \o ChapterRecords(ci)
GlobalRecords == RecordsThrough(Len(stream))

\* C8: at every point of the pass the reservoir holds min(k, n) records, k the
\* capacity and n the dialogue lines consumed so far; while n <= k it holds the
\* first n lines, and it never holds more than k.
C8_ReservoirSize ==
    \A r \in 1 .. NumRuns :
        /\ Len(runs[r].sample_lines) = Min(sample_count, Consumed(runs[r]))
        /\ Len(runs[r].sample_lines) <= sample_count
        /\ (sample_count > 0 /\ Consumed(runs[r]) <= sample_count) =>
              runs[r].sample_lines = SubSeq(GlobalRecords, 1, Consumed(runs[r]))

\* a full reservoir that has gone on to consume a line and replace a slot
C8_Witness ==
    \E r \in 1 .. NumRuns :
        /\ sample_count = MaxCap
        /\ Consumed(runs[r]) > sample_count
        /\ runs[r].last.u # None /\ runs[r].last.admitted
        /\ Len(runs[r].sample_lines) = sample_count

BothDone == \A r \in 1 .. NumRuns : runs[r].pc = "done"

\* C9: two runs with the same seed, capacity and stream end with the same
\* records in the same slots.
C9_SeededRunsAgree ==
    (seed # None /\ BothDone) =>
        \A r \in 1 .. NumRuns : runs[r].sample_lines = runs[1].sample_lines

\* two seeded runs, started from different module-level generator states, that
\* both replaced a slot
C9_Witness ==
    /\ seed # None /\ BothDone
    /\ ambient[1] # ambient[2]
    /\ sample_count >= 1
    /\ Len(GlobalRecords) > sample_count
    /\ runs[1].sample_lines # SubSeq(GlobalRecords, 1, sample_count)
    /\ runs[2].sample_lines = runs[1].sample_lines

\* C10: with the reservoir full, the i-th line (i > k) is admitted with
\* probability k/i: the draw u/RngModulus is compared with k/i, and an admitted
\* line takes one of the k slots.
C10_AdmitsKOverI ==
    \A r \in 1 .. NumRuns :
        (runs[r].last.u # None /\ runs[r].last.i > sample_count) =>
            /\ runs[r].last.admitted <=>
                 (runs[r].last.u * runs[r].last.i < sample_count * RngModulus)
            /\ runs[r].last.admitted => runs[r].last.slot \in 0 .. sample_count - 1

\* what does hold: the threshold is one tenth whatever k and i are
C10_AdmitsOneTenth ==
    \A r \in 1 .. NumRuns :
        (runs[r].last.u # None /\ runs[r].last.i > sample_count) =>
            /\ runs[r].last.admitted <=> (runs[r].last.u * 10 < RngModulus)
            /\ runs[r].last.admitted => runs[r].last.slot \in 0 .. sample_count - 1

-----------------------------------------------------------------------------
(* Traversal order: the same traversal over graphs of four nodes, where
   depth-first and breadth-first orders differ. *)

MaxOrderEdges == 4
OrderKeys == {1, 3, 4, 62}
OrderSuccIds == {3, 4, 62}
OrderHashes == {0, 100}

\* node 3 may lack text, the others have it
OrderNodes(k, l) ==
    [talkContentTextMapHash : IF k = 3 THEN OrderHashes ELSE {100},
     nextDialogs : [1 .. l -> OrderSuccIds],
     talkRole : {NoRole}]

RECURSIVE OrderGraphsOver(_, _)
OrderGraphsOver(K, e) ==
    IF K = {} THEN {<<>>}
    ELSE LET k == CHOOSE x \in K : TRUE
         IN UNION {{(k :> n) @@ g : n \in OrderNodes(k, l),
                                    g \in OrderGraphsOver(K \ {k}, e - l)} : l \in 0 .. e}

OrderGraphs == OrderGraphsOver(OrderKeys, MaxOrderEdges)

InitOrder ==
    /\ version \in Versions
    /\ textmap = DefaultTextMap
    /\ dialog_dict \in OrderGraphs
    /\ npc_dict = <<>>
    /\ pc = "talk"
    /\ init_dialog = 1
    /\ stack = <<>> /\ visited = {} /\ result = <<>>
    /\ QuestIdle /\ TextIdle /\ ResolveIdle /\ SpeakerIdle /\ ChapterIdle /\ SampleIdle

SpecOrder == InitOrder /\ [][NextTree]_vars

\* the canonical successors of n as a list, in stored order
SuccList(n) ==
    LET resolved == [i \in 1 .. Len(dialog_dict[n].nextDialogs) |->
                       find_dialog_id(dialog_dict, dialog_dict[n].nextDialogs[i])]
    IN SelectSeq(resolved, LAMBDA x : x # None)

\* depth-first pre-order: n, then the pre-order of each successor in list order,
\* leaving out what has been discovered before
RECURSIVE PreOrder(_, _), PreOrderOfList(_, _)
PreOrder(n, seen) ==
    IF n \in seen THEN <<>>
    ELSE <<n>> \o PreOrderOfList(SuccList(n), seen \cup {n})
PreOrderOfList(list, seen) ==
    IF list = <<>> THEN <<>>
    ELSE LET first == PreOrder(Head(list), seen)
         IN first \o PreOrderOfList(Tail(list), seen \cup Range(first))

\* breadth-first order from n, for comparison
RECURSIVE LevelOrder(_, _)
LevelOrder(queue, seen) ==
    IF queue = <<>> THEN <<>>
    ELSE IF Head(queue) \in seen THEN LevelOrder(Tail(queue), seen)
    ELSE <<Head(queue)>>
         \o LevelOrder(Tail(queue) \o SuccList(Head(queue)), seen \cup {Head(queue)})

HasText(n) == ContractText(textmap, dialog_dict[n].talkContentTextMapHash) # ""

ResultIds == [i \in 1 .. Len(result) |-> result[i].id]

\* the position of node n in the returned lines, 0 when it has none
PositionOf(n) ==
    IF \E i \in 1 .. Len(result) : result[i].id = n
    THEN CHOOSE i \in 1 .. Len(result) : result[i].id = n
    ELSE 0

\* C11: the returned lines are the depth-first pre-order of the graph from the
\* resolved root, successors in stored list order, restricted to the nodes with
\* text; a node reachable by two paths appears once, where that order first
\* discovers it.
C11_DepthFirstPreOrder ==
    (pc = "done" /\ ResolvedRoot # None) =>
        /\ ResultIds = SelectSeq(PreOrder(ResolvedRoot, {}), HasText)
        /\ NoDuplicateIds

\* a finished traversal whose depth-first and breadth-first orders differ and
\* that met a node reachable through two of the nodes before it
C11_Witness ==
    /\ pc = "done" /\ ResolvedRoot # None
    /\ Len(result) = 4
    /\ PreOrder(ResolvedRoot, {}) # LevelOrder(<<ResolvedRoot>>, {})
    /\ \E n \in DOMAIN dialog_dict :
          Cardinality({m \in DOMAIN dialog_dict : n \in Succ(m)}) >= 2

-----------------------------------------------------------------------------
(* Successor resolution during the traversal *)

\* some node reachable from the root lists an identifier that is no key but
\* whose prefixed form is
RawSuccessorResolves ==
    \E n \in Reachable : \E s \in Range(dialog_dict[n].nextDialogs) :
        s \notin DOMAIN dialog_dict /\ find_dialog_id(dialog_dict, s) # None

\* C12: every successor identifier goes through the Identifier Resolver before
\* the visited test: the visited set holds canonical identifiers (node keys)
\* only, and at the end every node reachable through resolved successors that
\* has text has its line, once.
C12_SuccessorsResolved ==
    /\ visited \subseteq DOMAIN dialog_dict
    /\ (pc = "done" /\ ResolvedRoot # None) =>
          /\ Range(ResultIds) = ReachableWithText
          /\ NoDuplicateIds

\* the same for the v1 traversal alone
C12_HoldsForV1 ==
    version = "v1" =>
        /\ visited \subseteq DOMAIN dialog_dict
        /\ (pc = "done" /\ ResolvedRoot # None) =>
              /\ Range(ResultIds) = ReachableWithText
              /\ NoDuplicateIds

\* a v1 traversal that followed a raw identifier to its prefixed node
C12_ReachedV1 ==
    /\ version = "v1" /\ pc = "done" /\ RawSuccessorResolves
    /\ Len(result) >= 2

-----------------------------------------------------------------------------
(* Coverage of one chapter *)

\* C13: for a chapter with output, the dialogue count recorded in the coverage
\* report is the number of dialogue lines (speaker and text) written to the
\* chapter's transcript, the lines offered to the reservoir are exactly those,
\* in order, each with its index among them, and no banner or quest header line
\* (title, description) is counted or offered.
C13_CoverageCountsDialogueLines ==
    coverage.recorded =>
        /\ coverage.dialogues = Len(DialogueLines(chapter_output))
        /\ Len(coverage.offered) = Len(DialogueLines(chapter_output))
        /\ \A i \in 1 .. Len(coverage.offered) :
              /\ coverage.offered[i].text = DialogueLines(chapter_output)[i]
              /\ coverage.offered[i].line_index = i - 1
              /\ coverage.offered[i].chapter_id = chapter_id

NoDescriptionLine == \A i \in 1 .. Len(chapter_output) : chapter_output[i].kind # "desc"

\* the claim restricted to chapters none of whose quests has a description
C13_HoldsWithoutDescription ==
    (coverage.recorded /\ NoDescriptionLine) =>
        /\ coverage.dialogues = Len(DialogueLines(chapter_output))
        /\ \A i \in 1 .. Len(coverage.offered) :
              /\ coverage.offered[i].text = DialogueLines(chapter_output)[i]
              /\ coverage.offered[i].line_index = i - 1

\* a reported chapter without description lines and with dialogue lines
C13_ReachedWithoutDescription ==
    /\ coverage.recorded /\ NoDescriptionLine
    /\ coverage.dialogues >= 2

-----------------------------------------------------------------------------
(* Quest-to-chapter relation: the chapter lookup called for the chapters of a
   table of main quests.  A field that is None is absent from the record. *)

QuestChapters == {1, 2}
ChapterRefs == {None, 1, 2}
QuestIds == <<11, 12>>

QuestTables ==
    {[i \in 1 .. 2 |-> [id |-> ids[i], series |-> f[i][1], chapterId |-> f[i][2]]] :
        ids \in {QuestIds, <<QuestIds[2], QuestIds[1]>>},
        f \in [1 .. 2 -> ChapterRefs \X ChapterRefs]}

\* ArchonQuestExtractor.get_chapter_quests
get_chapter_quests(quests, cid) ==
    SelectSeq(quests, LAMBDA mq : mq.chapterId = cid)

QuestsOf(v, quests, cid) ==
    IF v = "v1" THEN get_chapter_quests(quests, cid)
    ELSE get_chapter_main_quests(quests, cid)

InitQuests ==
    /\ version \in Versions
    /\ textmap = DefaultTextMap
    /\ dialog_dict = <<>>
    /\ npc_dict = <<>>
    /\ pc = "lookup"
    /\ main_quests \in QuestTables
    /\ assigned = <<>>
    /\ TextIdle /\ ResolveIdle /\ SpeakerIdle /\ TreeIdle /\ ChapterIdle /\ SampleIdle

\* extract_chapter's lookup of the quests of one chapter
GetChapterQuests ==
    /\ pc = "lookup"
    /\ \E cid \in QuestChapters \ DOMAIN assigned :
         assigned' = (cid :> QuestsOf(version, main_quests, cid)) @@ assigned
    /\ UNCHANGED <<version, textmap, dialog_dict, npc_dict, pc, main_quests, textVars,
                   resolveVars, speakerVars, treeVars, chapterVars, sampleVars>>

NextQuests == GetChapterQuests

SpecQuests == InitQuests /\ [][NextQuests]_vars

AssignedTo(cid) == {assigned[cid][i].id : i \in 1 .. Len(assigned[cid])}

\* a quest with a chapterId is among the quests of the chapter it names and of
\* no other
ChapterIdDecides ==
    \A cid \in DOMAIN assigned : \A i \in 1 .. Len(main_quests) :
        main_quests[i].chapterId # None =>
            (main_quests[i].id \in AssignedTo(cid) <=> main_quests[i].chapterId = cid)

AtMostOneChapter ==
    \A c1, c2 \in DOMAIN assigned : c1 # c2 => AssignedTo(c1) \cap AssignedTo(c2) = {}

\* C14: a quest whose chapterId is populated belongs to the chapter chapterId
\* names and to no other, series being consulted only for quests without
\* chapterId; so a quest is among the quests of at most one chapter.
C14_OneOwningChapter == ChapterIdDecides /\ AtMostOneChapter

\* the same for the v1 lookup alone, which reads chapterId only
C14_HoldsForV1 == version = "v1" => (ChapterIdDecides /\ AtMostOneChapter)

\* a quest with both fields populated, naming different chapters, looked up for both
C14_ReachedBothFields ==
    /\ DOMAIN assigned = QuestChapters
    /\ \E i \in 1 .. Len(main_quests) :
          /\ main_quests[i].chapterId # None /\ main_quests[i].series # None
          /\ main_quests[i].chapterId # main_quests[i].series

====
